---- MODULE Spec2Model ----
(***************************************************************************)
(* mserialize::string_view (include/mserialize/string_view.hpp).           *)
(*                                                                         *)
(* A view is the pair (_ptr, _len).  Memory is a small array of bytes at   *)
(* the addresses Storage; address Null is nullptr.  size_type is an        *)
(* unsigned integer of W bits, so every size_type addition is taken        *)
(* modulo 2^W.                                                             *)
(*                                                                         *)
(* Spec      the view object under clear/remove_prefix/remove_suffix,      *)
(*           substr and copy assignment                                    *)
(* CmpSpec   starts_with, ends_with, operator== and operator!=             *)
(* FindSpec  find() and the private search() loop, one step per iteration  *)
(* FindLive  FindSpec with the (synchronous) search loop always running    *)
(***************************************************************************)
EXTENDS Integers, FiniteSets, Sequences, TLC

\* ---------------------------------------------------------------- bounds
W == 3
MemLen == 3

\* ------------------------------------------------------------- size_type
Mod == 2 ^ W
SizeT == 0 .. (Mod - 1)
npos == Mod - 1

Min(a, b) == IF a < b THEN a ELSE b

\* ---------------------------------------------------------------- memory
Null == 0
StorageBase == Null + 1
StorageEnd == StorageBase + MemLen
Storage == StorageBase .. (StorageEnd - 1)
Bytes == {97, 98}
Mems == [Storage -> Bytes]

View(p, l) == [ptr |-> p, len |-> l]
DefaultView == View(Null, 0)
ValidViews ==
  {View(p, l) : p \in StorageBase .. StorageEnd, l \in 0 .. MemLen} \cap
  {s \in [ptr : StorageBase .. StorageEnd, len : 0 .. MemLen] : s.ptr + s.len <= StorageEnd}
Views == ValidViews \cup {DefaultView}

\* Arguments of size_type handed to the operations: the counts and positions
\* up to one past every possible length, and the large ones (npos included)
\* whose sum with a position wraps.  With W = 3, MemLen = 3 this is SizeT.
SizeArgs == (0 .. (MemLen + 1)) \cup ((Mod - MemLen - 1) .. (Mod - 1))

VARIABLES
  mem,          \* the bytes of the backing storage
  orig,         \* the view as constructed
  v,            \* the view object (_ptr, _len)
  op,           \* the last call: its name, arguments and the object it was made on
  prev,         \* the call before it, kept when both are remove_prefix
  sub,          \* the view returned by substr
  threw,        \* whether the last call raised std::out_of_range
  flag,         \* the bool returned by starts_with / ends_with / == / !=
  pc,           \* "idle", or "search" while search() runs
  frame,        \* the locals of search()
  hayReads,     \* addresses read through `it` by the running/last search
  needleReads,  \* addresses read through `s_it` by the running/last search
  cands,        \* candidate start positions examined by the running/last search
  found         \* the size_type returned by find

vars == <<mem, orig, v, op, prev, sub, threw, flag, pc, frame, hayReads,
          needleReads, cands, found>>
findVars == <<pc, frame, hayReads, needleReads, cands, found>>

Call(name, a, b, x, self) == [name |-> name, a |-> a, b |-> b, x |-> x, self |-> self]
NoCall == Call("none", 0, 0, DefaultView, DefaultView)
NoFrame == [first |-> Null, last |-> Null, s_first |-> Null, s_last |-> Null,
            it |-> Null, s_it |-> Null]
\* No size_type: the value of `found` while a search runs.
NoResult == Mod

\* ------------------------------------------------------------- accessors
size(s) == s.len
empty(s) == s.len = 0
data(s) == s.ptr
cbegin(s) == s.ptr
cend(s) == s.ptr + s.len

\* The caller's contract: the range [data, data + length) lies in the range
\* the view was constructed over.
Within(s, o) == o.ptr <= s.ptr /\ s.ptr + s.len <= o.ptr + o.len

\* ------------------------------------------------------------- modifiers
clear(s) == View(s.ptr, 0)

ClampCount(n, len) == IF n > len THEN len ELSE n

\* remove_prefix that shortens the view and forgets `_ptr += n`.
RemovePrefixKeepsPtr(s, n) ==
  LET k == ClampCount(n, s.len) IN View(s.ptr, s.len - k)

remove_prefix(s, n) ==
  LET k == ClampCount(n, s.len) IN View(s.ptr + k, s.len - k)

remove_suffix(s, n) ==
  LET k == ClampCount(n, s.len) IN View(s.ptr, s.len - k)

\* ---------------------------------------------------------------- substr
SubstrThrows(s, pos) == pos > size(s)

SubstrCount(s, pos, n) ==
  IF n = npos \/ (pos + n) % Mod > size(s) THEN size(s) - pos ELSE n

substr(s, pos, n) == View(data(s) + pos, SubstrCount(s, pos, n))

\* ------------------------------------------------------------ comparison
\* std::char_traits<char>::compare(p, q, n): the sign of the first differing
\* byte among the first n, 0 when there is none.
RECURSIVE compare(_, _, _)
compare(p, q, n) ==
  IF n = 0 THEN 0
  ELSE IF mem[p] < mem[q] THEN -1
  ELSE IF mem[p] > mem[q] THEN 1
  ELSE compare(p + 1, q + 1, n - 1)

starts_with(s, x) == s.len >= x.len /\ compare(s.ptr, x.ptr, x.len) = 0

\* ends_with that compares from the front of the view.
EndsWithFromFront(s, x) ==
  s.len >= x.len /\ compare(s.ptr, x.ptr, x.len) = 0

ends_with(s, x) ==
  s.len >= x.len /\ compare(s.ptr + s.len - x.len, x.ptr, x.len) = 0

\* operator== that compares the pointers instead of the bytes.
EqualByAddress(x, y) == size(x) = size(y) /\ data(x) = data(y)

Equal(x, y) ==
  IF size(x) # size(y) THEN FALSE ELSE compare(data(x), data(y), size(x)) = 0

NotEqual(x, y) == ~Equal(x, y)

\* ------------------------------------------------------------------ Init
\* The object as constructed over any valid range, or default-constructed.
Constructed ==
  /\ orig \in Views
  /\ v = orig
  /\ op = NoCall
  /\ prev = NoCall
  /\ sub = DefaultView
  /\ threw = FALSE
  /\ flag = FALSE
  /\ pc = "idle"
  /\ frame = NoFrame
  /\ hayReads = {}
  /\ needleReads = {}
  /\ cands = 0
  /\ found = NoResult

\* The modifiers and substr never read a byte: one content of the storage.
Init == mem = [a \in Storage |-> 97] /\ Constructed

\* The operations that read bytes start from every content of the storage.
InitRead == mem \in Mems /\ Constructed

\* A call is made on the object while no search runs and while the object
\* still honours the caller's contract.
CanCall == pc = "idle" /\ Within(v, orig)

Clear ==
  /\ CanCall
  /\ v' = clear(v)
  /\ op' = Call("clear", 0, 0, DefaultView, v)
  /\ prev' = NoCall
  /\ sub' = DefaultView
  /\ threw' = FALSE
  /\ flag' = FALSE
  /\ UNCHANGED <<mem, orig>>
  /\ UNCHANGED findVars

RemovePrefix(n) ==
  /\ CanCall
  /\ v' = remove_prefix(v, n)
  /\ op' = Call("remove_prefix", n, 0, DefaultView, v)
  /\ prev' = IF op.name = "remove_prefix" THEN op ELSE NoCall
  /\ sub' = DefaultView
  /\ threw' = FALSE
  /\ flag' = FALSE
  /\ UNCHANGED <<mem, orig>>
  /\ UNCHANGED findVars

RemoveSuffix(n) ==
  /\ CanCall
  /\ v' = remove_suffix(v, n)
  /\ op' = Call("remove_suffix", n, 0, DefaultView, v)
  /\ prev' = NoCall
  /\ sub' = DefaultView
  /\ threw' = FALSE
  /\ flag' = FALSE
  /\ UNCHANGED <<mem, orig>>
  /\ UNCHANGED findVars

\* substr is const: it returns a new view (or throws) and leaves the object.
Substr(pos, n) ==
  /\ CanCall
  /\ op' = Call("substr", pos, n, DefaultView, v)
  /\ prev' = NoCall
  /\ IF SubstrThrows(v, pos)
       THEN threw' = TRUE /\ sub' = DefaultView
       ELSE threw' = FALSE /\ sub' = substr(v, pos, n)
  /\ flag' = FALSE
  /\ UNCHANGED <<mem, orig, v>>
  /\ UNCHANGED findVars

\* v = v.substr(pos, n): copy assignment of the returned view.
Assign ==
  /\ CanCall
  /\ op.name = "substr"
  /\ ~threw
  /\ v' = sub
  /\ op' = Call("assign", op.a, op.b, DefaultView, v)
  /\ prev' = NoCall
  /\ sub' = DefaultView
  /\ threw' = FALSE
  /\ flag' = FALSE
  /\ UNCHANGED <<mem, orig>>
  /\ UNCHANGED findVars

Predicate(name, x, result) ==
  /\ CanCall
  /\ op' = Call(name, 0, 0, x, v)
  /\ prev' = NoCall
  /\ sub' = DefaultView
  /\ threw' = FALSE
  /\ flag' = result
  /\ UNCHANGED <<mem, orig, v>>
  /\ UNCHANGED findVars

StartsWith(x) == Predicate("starts_with", x, starts_with(v, x))
EndsWith(x) == Predicate("ends_with", x, ends_with(v, x))
OpEq(x) == Predicate("eq", x, Equal(v, x))
OpNe(x) == Predicate("ne", x, NotEqual(v, x))

\* ------------------------------------------------------------------ find
\* The range check of find written with >=.
PosAtOrPastEnd(s, pos) == pos >= size(s)

PosOutOfRange(s, pos) == pos > size(s)

\* find's return statement: iter == cend() ? npos : size_type(iter - cbegin())
FindResult(s, iter) == IF iter = cend(s) THEN npos ELSE iter - cbegin(s)

\* A read through a pointer: the byte stored there, or, outside the storage,
\* whatever the build produces.
ReadOutcomes(a) == IF a \in Storage THEN {mem[a]} ELSE Bytes

NeedleDone(f) == f.s_it = f.s_last
\* The end test of the inner loop placed one byte late.
HayDonePastEnd(f) == f.it > f.last

HayDone(f) == f.it = f.last
\* A restart after the bytes already compared, and a restart that never
\* advances.
NextCandidateSkip(f) == f.it + 1
NextCandidateStuck(f) == f.first

NextCandidate(f) == f.first + 1

Return(result) ==
  /\ pc' = "idle"
  /\ found' = result
  /\ frame' = NoFrame

\* find(s, pos) up to its return or its call of search().
Find(s, pos) ==
  /\ CanCall
  /\ op' = Call("find", pos, 0, s, v)
  /\ hayReads' = {}
  /\ needleReads' = {}
  /\ IF PosOutOfRange(v, pos) THEN Return(npos) /\ cands' = 0
     ELSE IF empty(s) THEN Return(pos) /\ cands' = 0
     ELSE /\ pc' = "search"
          /\ frame' = [first |-> cbegin(v) + pos, last |-> cend(v),
                       s_first |-> cbegin(s), s_last |-> cend(s),
                       it |-> cbegin(v) + pos, s_it |-> cbegin(s)]
          /\ cands' = 1
          /\ found' = NoResult
  /\ UNCHANGED <<mem, orig, v, prev, sub, threw, flag>>

\* if (s_it == s_last) { return first; }
SearchMatch ==
  /\ pc = "search"
  /\ NeedleDone(frame)
  /\ Return(FindResult(v, frame.first))
  /\ UNCHANGED <<mem, orig, v, op, prev, sub, threw, flag, hayReads, needleReads, cands>>

\* if (it == last) { return last; }
SearchEnd ==
  /\ pc = "search"
  /\ ~NeedleDone(frame)
  /\ HayDone(frame)
  /\ Return(FindResult(v, frame.last))
  /\ UNCHANGED <<mem, orig, v, op, prev, sub, threw, flag, hayReads, needleReads, cands>>

\* if (*it != *s_it) { break; }, then ++it, ++s_it or, after the break,
\* ++first and the restart of the inner loop.
SearchCompare ==
  /\ pc = "search"
  /\ ~NeedleDone(frame)
  /\ ~HayDone(frame)
  /\ hayReads' = hayReads \cup {frame.it}
  /\ needleReads' = needleReads \cup {frame.s_it}
  /\ \E hb \in ReadOutcomes(frame.it), nb \in ReadOutcomes(frame.s_it) :
       IF hb # nb
         THEN /\ frame' = [frame EXCEPT !.first = NextCandidate(frame),
                                        !.it = NextCandidate(frame),
                                        !.s_it = frame.s_first]
              /\ cands' = cands + 1
         ELSE /\ frame' = [frame EXCEPT !.it = frame.it + 1, !.s_it = frame.s_it + 1]
              /\ cands' = cands
  /\ UNCHANGED <<mem, orig, v, op, prev, sub, threw, flag, pc, found>>

SearchStep == SearchMatch \/ SearchEnd \/ SearchCompare

\* -------------------------------------------------------- specifications
Next ==
  \/ Clear
  \/ \E n \in SizeArgs : RemovePrefix(n)
  \/ \E n \in SizeArgs : RemoveSuffix(n)
  \/ \E pos \in SizeArgs, n \in SizeArgs : Substr(pos, n)
  \/ Assign

Spec == Init /\ [][Next]_vars

NextCmp ==
  \/ \E x \in Views : StartsWith(x)
  \/ \E x \in Views : EndsWith(x)
  \/ \E x \in Views : OpEq(x)
  \/ \E x \in Views : OpNe(x)

CmpSpec == InitRead /\ [][NextCmp]_vars

NextFind ==
  \/ \E s \in Views, pos \in SizeArgs : Find(s, pos)
  \/ SearchMatch
  \/ SearchEnd
  \/ SearchCompare

FindSpec == InitRead /\ [][NextFind]_vars

\* find is an ordinary synchronous call: once search() is entered its loop
\* keeps executing.
FindLive == FindSpec /\ WF_vars(SearchStep)

\* ------------------------------------------------- reference definitions
\* x occurs in s at offset p, byte for byte.
Occurs(s, x, p) ==
  /\ p + x.len <= s.len
  /\ \A i \in 0 .. (x.len - 1) : mem[s.ptr + p + i] = mem[x.ptr + i]

Matches(s, x, pos) == {p \in pos .. s.len : Occurs(s, x, p)}

Lowest(S) == CHOOSE p \in S : \A q \in S : p <= q

ContentEq(x, y) ==
  /\ x.len = y.len
  /\ \A i \in 0 .. (x.len - 1) : mem[x.ptr + i] = mem[y.ptr + i]

Disjoint(x, y) == x.ptr + x.len <= y.ptr \/ y.ptr + y.len <= x.ptr

FindReturned == op.name = "find" /\ pc = "idle"

\* ---------------------------------------------------------------- claims

\* C1: find with a non-empty needle and fromPos <= size() returns the lowest
\* offset p >= fromPos at which the needle occurs byte for byte inside the
\* view, and npos exactly when there is none (always when fromPos > size()).
C1_FindLowestMatch ==
  (FindReturned /\ ~empty(op.x)) =>
    found = IF op.a > size(v) \/ Matches(v, op.x, op.a) = {}
              THEN npos
              ELSE Lowest(Matches(v, op.x, op.a))

\* A search that skipped candidates and found a later occurrence.
C1_Witness ==
  /\ FindReturned
  /\ size(op.x) >= 2
  /\ found # npos
  /\ found > op.a
  /\ Occurs(v, op.x, found)

\* C2: for pos <= size() and every n, substr(pos, n) returns the view
\* (data() + pos, min(n, size() - pos)), also when pos + n wraps.
C2_SubstrClamps ==
  (op.name = "substr" /\ ~threw) =>
    sub = View(data(v) + op.a, Min(op.b, size(v) - op.a))

\* C3: substr throws iff pos > size(); at pos = size() it returns an empty
\* view; the object substr was called on is unchanged.
C3_SubstrThrowsIff ==
  op.name = "substr" =>
    /\ threw <=> op.a > size(op.self)
    /\ op.a = size(op.self) => (~threw /\ sub.len = 0)
    /\ v = op.self

\* C4 as claimed: remove_prefix(n) then remove_prefix(m) leaves the view that
\* the single call remove_prefix(n + m) leaves, n + m being a size_type.
C4_PrefixSum ==
  (op.name = "remove_prefix" /\ prev.name = "remove_prefix") =>
    v = remove_prefix(prev.self, (prev.a + op.a) % Mod)

\* C4 amended: the two calls advance data by min(n + m, size) and shorten the
\* length by as much, n + m being the sum in the integers; that is what the
\* single call remove_prefix(n + m) leaves whenever n + m does not wrap.
C4_PrefixSumNoWrap ==
  (op.name = "remove_prefix" /\ prev.name = "remove_prefix") =>
    LET k == Min(prev.a + op.a, size(prev.self)) IN
      /\ v = View(data(prev.self) + k, size(prev.self) - k)
      /\ prev.a + op.a < Mod => v = remove_prefix(prev.self, prev.a + op.a)

\* Two calls that each remove something, the second one clamped.
C4_Witness ==
  /\ op.name = "remove_prefix"
  /\ prev.name = "remove_prefix"
  /\ prev.a > 0
  /\ prev.a < size(prev.self)
  /\ op.a > size(op.self)
  /\ prev.a + op.a < Mod
  /\ v = View(data(prev.self) + size(prev.self), 0)

\* C5: find with an empty needle returns pos when pos <= size() and npos
\* when pos > size(), for every view, the default (null) view included.
C5_FindEmptyNeedle ==
  (FindReturned /\ empty(op.x)) =>
    found = IF op.a <= size(v) THEN op.a ELSE npos

\* The empty needle sought at the very end of a non-empty view.
C5_Witness ==
  /\ FindReturned
  /\ empty(op.x)
  /\ size(v) > 0
  /\ op.a = size(v)
  /\ found = size(v)

\* C6: starts_with(x) iff size() >= x.size() and the first x.size() bytes
\* equal x; ends_with(x) iff size() >= x.size() and the last x.size() bytes
\* equal x; so both hold for an empty x and neither for a longer x.
C6_PrefixSuffix ==
  /\ op.name = "starts_with" =>
       /\ flag <=> (size(v) >= size(op.x) /\ Occurs(v, op.x, 0))
       /\ empty(op.x) => flag
       /\ size(op.x) > size(v) => ~flag
  /\ op.name = "ends_with" =>
       /\ flag <=> (size(v) >= size(op.x) /\ Occurs(v, op.x, size(v) - size(op.x)))
       /\ empty(op.x) => flag
       /\ size(op.x) > size(v) => ~flag

\* A proper suffix, stored elsewhere, that is not a prefix.
C6_Witness ==
  /\ op.name = "ends_with"
  /\ flag
  /\ size(op.x) > 0
  /\ size(op.x) < size(v)
  /\ Disjoint(v, op.x)
  /\ ~Occurs(v, op.x, 0)

\* C7: x == y iff the sizes are equal and every corresponding byte is equal,
\* wherever the two views point; == is reflexive and symmetric and != is its
\* negation.
C7_ContentEquality ==
  /\ op.name = "eq" =>
       /\ flag <=> ContentEq(v, op.x)
       /\ flag <=> Equal(op.x, v)
       /\ flag <=> ~NotEqual(v, op.x)
       /\ Equal(v, v)
  /\ op.name = "ne" => (flag <=> ~ContentEq(v, op.x))

\* Equal non-empty views over disjoint storage.
C7_Witness ==
  /\ op.name = "eq"
  /\ flag
  /\ size(v) > 0
  /\ Disjoint(v, op.x)

\* C8: after any sequence of remove_prefix, remove_suffix, clear and
\* non-throwing substr (its result replacing the view), the view's range is
\* a sub-range of the range it was constructed over.
C8_Containment == Within(v, orig)

\* C9: a search reads haystack bytes only at offsets in [pos, size()) and
\* needle bytes only at offsets in [0, needle.size()); the candidate cursor
\* never passes the end of the haystack; nothing is read when pos > size(),
\* when the needle is empty or when the haystack is empty.
C9_SearchInBounds ==
  op.name = "find" =>
    /\ hayReads \subseteq {data(v) + k : k \in op.a .. (size(v) - 1)}
    /\ needleReads \subseteq {data(op.x) + k : k \in 0 .. (size(op.x) - 1)}
    /\ pc = "search" =>
         /\ frame.first <= frame.last
         /\ frame.it <= frame.last
         /\ frame.s_it <= frame.s_last
    /\ (op.a > size(v) \/ empty(op.x) \/ empty(v)) =>
         (hayReads = {} /\ needleReads = {})

\* The cursor standing at the end of a haystack whose last byte was read.
C9_Witness ==
  /\ pc = "search"
  /\ frame.first = frame.last
  /\ (frame.last - 1) \in hayReads
  /\ Cardinality(needleReads) >= 2

\* C10: every find terminates, having examined at most size() - pos + 1
\* candidate start positions, the last of them the end position, where a
\* non-empty needle is not found.
C10_CandidateBound ==
  op.name = "find" =>
    /\ cands <= IF op.a <= size(v) THEN size(v) - op.a + 1 ELSE 0
    /\ (FindReturned /\ cands > 0 /\ cands = size(v) - op.a + 1) => found = npos

C10_SearchTerminates ==
  /\ []C10_CandidateBound
  /\ (pc = "search") ~> (pc = "idle")

\* A search that returned after examining every candidate of a view.
C10_Witness ==
  /\ FindReturned
  /\ op.a = 0
  /\ size(v) >= 2
  /\ cands = size(v) + 1

====
